---- MODULE Spec2Model ----
(***************************************************************************)
(* Model of src/app.py (SpotiDL API): the download_progress dictionary,    *)
(* the background threads running download_full_song, the yt-dlp progress  *)
(* hook, and the HTTP handlers that start a download, report its progress  *)
(* and serve the finished file.                                            *)
(*                                                                         *)
(* The upstream library (yt_dlp.YoutubeDL, spotipy, flask.send_file) is    *)
(* the environment: each of its calls returns or raises, and while         *)
(* ydl.download runs it calls the progress hook.                           *)
(***************************************************************************)
EXTENDS Integers, Sequences, FiniteSets, TLC

\* ---------------------------------------------------------------- bounds
MaxThreads == 2          \* background download threads that may be started
MaxHooks == 1            \* 'downloading' hook calls during one ydl.download
NumServerThreads == 1    \* distinct idents of the request-handling threads

\* ------------------------------------------------------------ value sets
Absent == "absent"       \* a key that is not in a dict / Python None
SpotifyIds == {"a", "b"}
ServerIdents == 1..NumServerThreads
Threads == 1..MaxThreads

\* download_id = f"full_{spotify_id}_{ident}": the pair determines the text
DownloadId(spotify_id, ident) == <<spotify_id, ident>>
DownloadIds == {DownloadId(s, i) : s \in SpotifyIds, i \in ServerIdents}
NoId == <<Absent, 0>>

Exts == {"webm"}
NoFile == [id |-> NoId, ext |-> Absent]     \* also the '' of .get('filename', '')
NoError == [kind |-> Absent, msg |-> Absent]
NoProgress == -1

\* the {} that download_progress.get(download_id, {}) and defaultdict(dict) give
EmptyDict == [status |-> Absent, progress |-> NoProgress,
              filename |-> NoFile, error |-> NoError]

\* JSON bodies of POST /api/download/full/track: json = FALSE is a body that
\* get_json() does not turn into a dict (None)
Bodies == {[json |-> FALSE, spotify_id |-> Absent]}
          \cup {[json |-> TRUE, spotify_id |-> s] : s \in {Absent, ""} \cup SpotifyIds}
NoBody == [json |-> FALSE, spotify_id |-> Absent]

\* the dicts yt-dlp passes to the progress hook
HookDicts == {[status |-> "downloading", percent |-> p] : p \in {Absent, "bad", "50"}}

VARIABLES
    download_progress,   \* dict: download_id -> dict of status/progress/filename/error
    COOKIE_FILE,         \* module global set once by setup_cookies()
    cookie_exists,       \* os.path.exists(COOKIE_FILE) right now
    files,               \* the mp3 files that exist in the temp directory
    thread,              \* per background thread: position and locals of download_full_song
    startup              \* what setup_cookies() finds when the module is imported

vars == <<download_progress, COOKIE_FILE, cookie_exists, files, thread, startup>>

\* ------------------------------------------------------- dict operations
Get(d, id) == IF id \in DOMAIN d THEN d[id] ELSE EmptyDict

\* download_progress[id][key] = val on a defaultdict(dict)
SetItem(d, id, key, val) ==
    [x \in DOMAIN d \cup {id} |-> IF x = id THEN [Get(d, id) EXCEPT ![key] = val] ELSE d[x]]

Del(d, id) == [x \in DOMAIN d \ {id} |-> d[x]]

\* ----------------------------------------------------------- file names
\* filename.replace('.webm', '.mp3').replace('.m4a', '.mp3')
Mp3Name(filename) ==
    IF filename.ext \in {"webm", "m4a"} THEN [filename EXCEPT !.ext = "mp3"] ELSE filename

\* what FFmpegExtractAudio with preferredcodec mp3 leaves on disk
Extracted(filename) == [filename EXCEPT !.ext = "mp3"]

\* ------------------------------------------------- download_full_song
\* the existence of the cookie file is not checked again
Opts_unchecked(cookie_file, exists) ==
    IF cookie_file # Absent
    THEN [cookiefile |-> TRUE, ignoreerrors |-> FALSE, geo_bypass |-> FALSE]
    ELSE [cookiefile |-> FALSE, ignoreerrors |-> TRUE, geo_bypass |-> TRUE]

\* lines 135-148: cookies when available, else the fallback options
Opts(cookie_file, exists) ==
    IF cookie_file # Absent /\ exists
    THEN [cookiefile |-> TRUE, ignoreerrors |-> FALSE, geo_bypass |-> FALSE]
    ELSE [cookiefile |-> FALSE, ignoreerrors |-> TRUE, geo_bypass |-> TRUE]

\* lines 170-178: copy, drop the cookie file, add the fallback options
retry_opts(ydl_opts) ==
    [ydl_opts EXCEPT !.cookiefile = FALSE, !.ignoreerrors = TRUE, !.geo_bypass = TRUE]

\* line 166: where the handler of a failed first attempt goes
OnDownloadError(ydl_opts) == IF ydl_opts.cookiefile THEN "retry_ctor" ELSE "w_error"

\* a failed retry is retried again
OnRetryError_again == "retry_ctor"

\* line 185: where a failure inside the retry goes
OnRetryError == "w_error"

\* no outer except: the exception ends the thread
OnUnexpected_escapes == "done"

\* line 193: where an exception that reaches the outer try goes
OnUnexpected == "w_uerror"

\* lines 198-210
progress_hook(dp, d, download_id) ==
    IF d.status = "downloading"
    THEN IF d.percent = Absent THEN dp
         ELSE IF d.percent = "50"
              THEN SetItem(SetItem(dp, download_id, "progress", 50),
                           download_id, "status", "downloading")
              ELSE SetItem(dp, download_id, "progress", 0)
    ELSE IF d.status = "finished"
         THEN SetItem(SetItem(dp, download_id, "filename", d.filename),
                      download_id, "status", "processing")
         ELSE dp

\* the status the hook call leaves written by this thread
HookWrote(d, before) ==
    IF d.status = "downloading" /\ d.percent = "50" THEN "downloading"
    ELSE IF d.status = "finished" THEN "processing" ELSE before

\* ------------------------------------------------------- setup_cookies
\* lines 60-64; the last two are relative to os.getcwd()
common_paths == <<"/etc/secrets/cookies.txt", "cookies.txt", "cookies/cookies.txt">>

\* the name NamedTemporaryFile(suffix='.txt', delete=False) gives its new file
TempName == "/tmp/tmpcookies.txt"

\* values of the environment variable COOKIE_FILE
EnvPaths == {Absent, "", "/data/cookies.txt", "/etc/secrets/cookies.txt"}

\* values of the environment variable YOUTUBE_COOKIES_BASE64
EnvBase64 == {Absent, "", "Y29va2ll", "abc", "/w==", "%%%"}

\* the paths that may hold a cookie file before start-up
SourcePaths == {"/data/cookies.txt"} \cup {common_paths[i] : i \in DOMAIN common_paths}

CookieText == "# Netscape HTTP Cookie File"

\* how creating and writing the temporary file may go
TempOutcomes == {"ok", "create_fails", "write_fails"}

\* base64.b64decode(v).decode('utf-8'): characters outside the alphabet are
\* dropped, wrong padding and bytes that are not UTF-8 raise
b64decode_utf8(v) ==
    CASE v = "Y29va2ll" -> [raised |-> FALSE, text |-> "cookie"]
      [] v = "%%%"      -> [raised |-> FALSE, text |-> ""]
      [] v = "abc"      -> [raised |-> TRUE, text |-> "Incorrect padding"]
      [] v = "/w=="     -> [raised |-> TRUE, text |-> "invalid start byte"]
      [] OTHER          -> [raised |-> FALSE, text |-> ""]

\* a Python value that counts as true in 'if value' (None and '' do not)
Truthy(v) == v \notin {Absent, ""}

\* lines 66-69 from index i on, and line 72
RECURSIVE FirstCommonPath(_, _)
FirstCommonPath(fs, i) ==
    IF i > Len(common_paths) THEN Absent
    ELSE IF common_paths[i] \in DOMAIN fs THEN common_paths[i]
    ELSE FirstCommonPath(fs, i + 1)

\* the file system after fs with the file `path` holding `text`
WriteFile(fs, path, text) ==
    [p \in DOMAIN fs \cup {path} |-> IF p = path THEN text ELSE fs[p]]

\* the common paths are looked at before the base64 value
setup_cookies_paths_first(cookie_file_path, cookies_base64, tmp, fs) ==
    LET decoded == b64decode_utf8(cookies_base64) IN
    IF Truthy(cookie_file_path) /\ cookie_file_path \in DOMAIN fs
    THEN [ret |-> cookie_file_path, fs |-> fs]
    ELSE IF FirstCommonPath(fs, 1) # Absent
    THEN [ret |-> FirstCommonPath(fs, 1), fs |-> fs]
    ELSE IF Truthy(cookies_base64) /\ ~decoded.raised /\ tmp = "ok"
    THEN [ret |-> TempName, fs |-> WriteFile(fs, TempName, decoded.text)]
    ELSE [ret |-> Absent, fs |-> fs]

\* lines 32-72: the value returned and the file system left behind
setup_cookies(cookie_file_path, cookies_base64, tmp, fs) ==
    LET decoded == b64decode_utf8(cookies_base64) IN
    IF Truthy(cookie_file_path) /\ cookie_file_path \in DOMAIN fs
    THEN [ret |-> cookie_file_path, fs |-> fs]
    ELSE IF Truthy(cookies_base64) /\ ~decoded.raised /\ tmp = "ok"
    THEN [ret |-> TempName, fs |-> WriteFile(fs, TempName, decoded.text)]
    ELSE \* no base64 value, or the except of line 56 has caught the failure
         [ret |-> FirstCommonPath(fs, 1),
          fs  |-> IF Truthy(cookies_base64) /\ ~decoded.raised /\ tmp = "write_fails"
                  THEN WriteFile(fs, TempName, "") ELSE fs]

\* the module has been imported and setup_cookies is not called again
Imported ==
    [loaded |-> TRUE, COOKIE_FILE |-> Absent, YOUTUBE_COOKIES_BASE64 |-> Absent,
     tmp |-> "ok", fs |-> <<>>]

\* causes of failure as the upstream library reports them: nothing playable
\* was found, or the service (or the library itself) failed
IdleThread ==
    [pc |-> "idle", download_id |-> NoId,
     ydl_opts |-> [cookiefile |-> FALSE, ignoreerrors |-> FALSE, geo_bypass |-> FALSE],
     retrying |-> FALSE, hooks |-> 0, finished |-> NoFile,
     attempts |-> <<>>, cause |-> Absent, wrote |-> Absent]

NoResp == [op |-> Absent, id |-> NoId, body |-> NoBody, code |-> 0, error |-> Absent,
           entry |-> EmptyDict, file |-> NoFile, cookies |-> Absent]

Init ==
    /\ download_progress = <<>>
    /\ COOKIE_FILE \in {Absent, "cookies.txt"}
    /\ cookie_exists = (COOKIE_FILE # Absent)
    /\ files = {}
    /\ thread = [t \in Threads |-> IdleThread]
    /\ startup = Imported

\* the thread ends and its locals are gone; download_id and cause are kept to
\* tell what the download was
Finished(th) ==
    [IdleThread EXCEPT !.pc = "done", !.download_id = th.download_id, !.cause = th.cause]

\* lines 119-148
BuildOpts(t) ==
    /\ thread[t].pc = "start"
    /\ thread' = [thread EXCEPT ![t].pc = "ctor",
                                ![t].ydl_opts = Opts(COOKIE_FILE, cookie_exists)]
    /\ UNCHANGED <<startup, download_progress, COOKIE_FILE, cookie_exists, files>>

\* line 150: YoutubeDL(ydl_opts) is constructed
CtorReturns(t) ==
    /\ thread[t].pc = "ctor"
    /\ thread' = [thread EXCEPT ![t].pc = "w_searching"]
    /\ UNCHANGED <<startup, download_progress, COOKIE_FILE, cookie_exists, files>>

\* line 150 raises (for instance an unreadable cookie file): outer except
CtorRaises(t) ==
    /\ thread[t].pc = "ctor"
    /\ thread' = [thread EXCEPT ![t].pc = OnUnexpected, ![t].cause = "service"]
    /\ UNCHANGED <<startup, download_progress, COOKIE_FILE, cookie_exists, files>>

\* line 151
WriteSearching(t) ==
    /\ thread[t].pc = "w_searching"
    /\ download_progress' = SetItem(download_progress, thread[t].download_id, "status", "searching")
    /\ thread' = [thread EXCEPT ![t].pc = "w_progress0", ![t].wrote = "searching"]
    /\ UNCHANGED <<startup, COOKIE_FILE, cookie_exists, files>>

\* line 152, then line 157 calls ydl.download
WriteProgress0(t) ==
    /\ thread[t].pc = "w_progress0"
    /\ download_progress' = SetItem(download_progress, thread[t].download_id, "progress", 0)
    /\ thread' = [thread EXCEPT
            ![t].pc = "download", ![t].hooks = 0, ![t].finished = NoFile,
            ![t].attempts = Append(@, [opts |-> thread[t].ydl_opts, result |-> "running"])]
    /\ UNCHANGED <<startup, COOKIE_FILE, cookie_exists, files>>

\* ------------------------------------------ ydl.download (lines 157, 181)
CurOpts(th) == th.attempts[Len(th.attempts)].opts

\* the hook dicts yt-dlp may pass next: 'downloading' reports come before the
\* 'finished' report of the one search result
NextHookDicts(th) ==
    IF th.finished # NoFile THEN {}
    ELSE {d \in HookDicts : th.hooks < MaxHooks}
         \cup {[status |-> "finished", percent |-> Absent,
                filename |-> [id |-> th.download_id, ext |-> e]] : e \in Exts}

\* why a call that returns normally may have produced no mp3: the search gave
\* nothing, or (errors ignored under 'ignoreerrors') the service failed
ReturnCauses(th) ==
    (IF th.finished # NoFile THEN {"ok"} ELSE {"notfound"})
    \cup (IF CurOpts(th).ignoreerrors THEN {"service"} ELSE {})

RaiseCauses(th) ==
    {"service"} \cup (IF th.finished = NoFile THEN {"notfound"} ELSE {})

EndAttempt(th, result, cause) ==
    [th EXCEPT !.attempts[Len(th.attempts)].result = result,
               !.cause = cause, !.hooks = 0, !.finished = NoFile]

\* yt-dlp calls progress_hook(d, download_id) (line 132) while downloading
Hook(t, d) ==
    /\ thread[t].pc = "download"
    /\ d \in NextHookDicts(thread[t])
    /\ download_progress' = progress_hook(download_progress, d, thread[t].download_id)
    /\ thread' = [thread EXCEPT
            ![t].hooks = IF d.status = "finished" THEN @ ELSE @ + 1,
            ![t].finished = IF d.status = "finished" THEN d.filename ELSE @,
            ![t].wrote = HookWrote(d, @)]
    /\ UNCHANGED <<startup, COOKIE_FILE, cookie_exists, files>>

\* ydl.download returns; when all went well the postprocessor has replaced the
\* downloaded file by its mp3
DownloadReturns(t, cause) ==
    /\ thread[t].pc = "download"
    /\ cause \in ReturnCauses(thread[t])
    /\ files' = IF cause = "ok" THEN files \cup {Extracted(thread[t].finished)} ELSE files
    /\ thread' = [thread EXCEPT
            ![t] = [EndAttempt(@, "returned", cause) EXCEPT !.pc = "w_completed"]]
    /\ UNCHANGED <<startup, download_progress, COOKIE_FILE, cookie_exists>>

\* ydl.download raises: line 162 for the first attempt, line 185 for the retry
DownloadRaises(t, cause) ==
    /\ thread[t].pc = "download"
    /\ cause \in RaiseCauses(thread[t])
    /\ thread' = [thread EXCEPT
            ![t] = [EndAttempt(@, "raised", cause) EXCEPT
                        !.pc = IF thread[t].retrying THEN OnRetryError
                               ELSE OnDownloadError(thread[t].ydl_opts)]]
    /\ UNCHANGED <<startup, download_progress, COOKIE_FILE, cookie_exists, files>>

\* lines 158 and 182
WriteCompleted(t) ==
    /\ thread[t].pc = "w_completed"
    /\ download_progress' = SetItem(download_progress, thread[t].download_id, "status", "completed")
    /\ thread' = [thread EXCEPT ![t].pc = "w_100", ![t].wrote = "completed"]
    /\ UNCHANGED <<startup, COOKIE_FILE, cookie_exists, files>>

\* lines 159 and 183, after which the with blocks are left and the thread ends
WriteProgress100(t) ==
    /\ thread[t].pc = "w_100"
    /\ download_progress' = SetItem(download_progress, thread[t].download_id, "progress", 100)
    /\ thread' = [thread EXCEPT ![t] = Finished(@)]
    /\ UNCHANGED <<startup, COOKIE_FILE, cookie_exists, files>>

\* lines 170-181: YoutubeDL(retry_opts) is constructed and download is called
RetryCtorReturns(t) ==
    /\ thread[t].pc = "retry_ctor"
    /\ thread' = [thread EXCEPT
            ![t].pc = "download", ![t].retrying = TRUE, ![t].hooks = 0, ![t].finished = NoFile,
            ![t].attempts = Append(@, [opts |-> retry_opts(thread[t].ydl_opts),
                                       result |-> "running"])]
    /\ UNCHANGED <<startup, download_progress, COOKIE_FILE, cookie_exists, files>>

\* line 180 raises: except retry_error (line 185)
RetryCtorRaises(t) ==
    /\ thread[t].pc = "retry_ctor"
    /\ thread' = [thread EXCEPT ![t].pc = OnRetryError, ![t].retrying = TRUE, ![t].cause = "service"]
    /\ UNCHANGED <<startup, download_progress, COOKIE_FILE, cookie_exists, files>>

\* lines 187 and 190
WriteError(t) ==
    /\ thread[t].pc = "w_error"
    /\ download_progress' = SetItem(download_progress, thread[t].download_id, "status", "error")
    /\ thread' = [thread EXCEPT ![t].pc = "w_errmsg", ![t].wrote = "error"]
    /\ UNCHANGED <<startup, COOKIE_FILE, cookie_exists, files>>

\* lines 188 and 191, after which the with block is left and the thread ends
WriteErrorMessage(t) ==
    /\ thread[t].pc = "w_errmsg"
    /\ download_progress' = SetItem(download_progress, thread[t].download_id, "error",
                                    [kind |-> "Download failed", msg |-> thread[t].cause])
    /\ thread' = [thread EXCEPT ![t] = Finished(@)]
    /\ UNCHANGED <<startup, COOKIE_FILE, cookie_exists, files>>

\* line 195
WriteUnexpected(t) ==
    /\ thread[t].pc = "w_uerror"
    /\ download_progress' = SetItem(download_progress, thread[t].download_id, "status", "error")
    /\ thread' = [thread EXCEPT ![t].pc = "w_uerrmsg", ![t].wrote = "error"]
    /\ UNCHANGED <<startup, COOKIE_FILE, cookie_exists, files>>

\* line 196
WriteUnexpectedMessage(t) ==
    /\ thread[t].pc = "w_uerrmsg"
    /\ download_progress' = SetItem(download_progress, thread[t].download_id, "error",
                                    [kind |-> "Unexpected error", msg |-> thread[t].cause])
    /\ thread' = [thread EXCEPT ![t] = Finished(@)]
    /\ UNCHANGED <<startup, COOKIE_FILE, cookie_exists, files>>

\* one step of the thread running download_full_song(track, download_id)
download_full_song(t) ==
    \/ BuildOpts(t)
    \/ CtorReturns(t)
    \/ CtorRaises(t)
    \/ WriteSearching(t)
    \/ WriteProgress0(t)
    \/ \E d \in NextHookDicts(thread[t]) : Hook(t, d)
    \/ \E c \in {"ok", "notfound", "service"} : DownloadReturns(t, c)
    \/ \E c \in {"notfound", "service"} : DownloadRaises(t, c)
    \/ WriteCompleted(t)
    \/ WriteProgress100(t)
    \/ RetryCtorReturns(t)
    \/ RetryCtorRaises(t)
    \/ WriteError(t)
    \/ WriteErrorMessage(t)
    \/ WriteUnexpected(t)
    \/ WriteUnexpectedMessage(t)

\* ------------------------------------------------------- HTTP handlers
\* A handler is its result (the response it sends and the dictionary it
\* leaves) as a function of the state it runs in and of its inputs, and the
\* action that installs that result.

\* COOKIE_FILE and os.path.exists(COOKIE_FILE) (lines 222, 360)
CookiesAvailable == COOKIE_FILE # Absent /\ cookie_exists

\* 'not spotify_id' (line 338)
NoTrackId(spotify_id) == spotify_id \in {Absent, ""}

\* POST /api/download/full/track handled by the server thread `ident`
\* (lines 332-364); track_found is whether sp.track(spotify_id) returns.
\* started is the download_id handed to a new thread, or NoId.
download_full_track_result(body, ident, track_found) ==
    LET answer == [NoResp EXCEPT !.op = "download", !.body = body] IN
    IF ~body.json
    THEN \* data is None: data.get raises AttributeError, caught at line 363
         [resp |-> [answer EXCEPT !.code = 500, !.error = "Failed to start download"],
          started |-> NoId]
    ELSE IF NoTrackId(body.spotify_id)
    THEN [resp |-> [answer EXCEPT !.code = 400, !.error = "No track ID provided"],
          started |-> NoId]
    ELSE IF ~track_found
    THEN [resp |-> [answer EXCEPT !.code = 500, !.error = "Failed to start download"],
          started |-> NoId]
    ELSE [resp |-> [answer EXCEPT !.code = 200, !.id = DownloadId(body.spotify_id, ident),
                       !.cookies = IF CookiesAvailable THEN "Available" ELSE "Not available"],
          started |-> DownloadId(body.spotify_id, ident)]

\* the first thread slot not yet used
FreeThread ==
    CHOOSE t \in Threads : thread[t].pc = "idle" /\ \A u \in 1..(t - 1) : thread[u].pc # "idle"

download_full_track(body, ident, track_found) ==
    LET r == download_full_track_result(body, ident, track_found) IN
    /\ r.started # NoId => \E t \in Threads : thread[t].pc = "idle"
    /\ thread' = IF r.started = NoId THEN thread
                 ELSE [thread EXCEPT ![FreeThread].pc = "start",
                                     ![FreeThread].download_id = r.started]
    /\ UNCHANGED <<startup, download_progress, COOKIE_FILE, cookie_exists, files>>

\* the entry is read by subscript, which a defaultdict answers by creating it
get_download_progress_subscript(dp, download_id) ==
    [resp |-> [NoResp EXCEPT !.op = "progress", !.id = download_id, !.code = 200,
                             !.entry = Get(dp, download_id)],
     dp |-> [x \in DOMAIN dp \cup {download_id} |-> Get(dp, x)]]

\* GET /api/download/progress/<download_id> (lines 366-369)
get_download_progress_result(dp, download_id) ==
    [resp |-> [NoResp EXCEPT !.op = "progress", !.id = download_id, !.code = 200,
                             !.entry = Get(dp, download_id)],
     dp |-> dp]

get_download_progress(download_id) ==
    /\ download_progress' = get_download_progress_result(download_progress, download_id).dp
    /\ UNCHANGED <<startup, COOKIE_FILE, cookie_exists, files, thread>>

\* a download still being post-processed passes as ready
FileReady_early(progress) == progress.status \in {"completed", "processing"}

\* line 376: progress.get('status') != 'completed' answers 400
FileReady(progress) == progress.status = "completed"

\* GET /api/download/file/<download_id> (lines 371-392); send_ok is whether
\* send_file returns the response or raises
download_file_result(dp, fs, download_id, send_ok) ==
    LET progress == Get(dp, download_id)
        filename == Mp3Name(progress.filename)
        answer   == [NoResp EXCEPT !.op = "file", !.id = download_id]
    IN
    IF ~FileReady(progress)
    THEN [resp |-> [answer EXCEPT !.code = 400, !.error = "Download not completed"], dp |-> dp]
    ELSE IF filename \notin fs
    THEN [resp |-> [answer EXCEPT !.code = 404, !.error = "File not found"], dp |-> dp]
    ELSE [resp |-> IF send_ok
                   THEN [answer EXCEPT !.code = 200, !.file = filename]
                   ELSE [answer EXCEPT !.code = 500, !.error = "Failed to download file"],
          dp |-> IF download_id \in DOMAIN dp THEN Del(dp, download_id) ELSE dp]

download_file(download_id, send_ok) ==
    /\ download_progress' = download_file_result(download_progress, files, download_id, send_ok).dp
    /\ UNCHANGED <<startup, COOKIE_FILE, cookie_exists, files, thread>>

\* ------------------------------------------------------- environment
\* the cookie file disappears after start-up
CookieFileRemoved ==
    /\ cookie_exists
    /\ cookie_exists' = FALSE
    /\ UNCHANGED <<startup, download_progress, COOKIE_FILE, files, thread>>

Next ==
    \/ \E body \in Bodies, ident \in ServerIdents, track_found \in BOOLEAN :
            download_full_track(body, ident, track_found)
    \/ \E id \in DownloadIds : get_download_progress(id)
    \/ \E id \in DownloadIds, send_ok \in BOOLEAN : download_file(id, send_ok)
    \/ \E t \in Threads : download_full_song(t)
    \/ CookieFileRemoved

Spec == Init /\ [][Next]_vars

\* every started thread keeps running, and every upstream call returns or raises
FairSpec == Spec /\ \A t \in Threads : WF_vars(download_full_song(t))

\* ------------------------------------------------------- module import
\* the environment and the file system the module is imported in
StartupInputs ==
    {[loaded |-> FALSE, COOKIE_FILE |-> c, YOUTUBE_COOKIES_BASE64 |-> b, tmp |-> k,
      fs |-> [p \in E |-> CookieText]] :
        c \in EnvPaths, b \in EnvBase64, k \in TempOutcomes, E \in SUBSET SourcePaths}

SetupInit ==
    /\ startup \in StartupInputs
    /\ download_progress = <<>>
    /\ COOKIE_FILE = Absent
    /\ cookie_exists = FALSE
    /\ files = {}
    /\ thread = [t \in Threads |-> IdleThread]

\* line 75: COOKIE_FILE = setup_cookies()
LoadCookies ==
    /\ ~startup.loaded
    /\ LET r == setup_cookies(startup.COOKIE_FILE, startup.YOUTUBE_COOKIES_BASE64,
                              startup.tmp, startup.fs)
       IN /\ COOKIE_FILE' = r.ret
          /\ cookie_exists' = (r.ret # Absent)
          /\ startup' = [startup EXCEPT !.loaded = TRUE, !.fs = r.fs]
    /\ UNCHANGED <<download_progress, files, thread>>

SetupNext == LoadCookies

SetupSpec == SetupInit /\ [][SetupNext]_vars

\* =================================================================== claims
Started(t) == thread[t].pc \notin {"idle", "done"}
Terminal == {"completed", "error"}
FileAnswer(id, send_ok) == download_file_result(download_progress, files, id, send_ok)

\* C1: GET /api/download/file/<download_id> answers with the file only when the
\* status it reads in the progress entry is 'completed'; for any other entry
\* (absent, empty, searching, downloading, processing, error) it answers 400
\* 'Download not completed' and serves nothing.
C1_FileOnlyWhenCompleted ==
    \A id \in DownloadIds, send_ok \in BOOLEAN :
        LET r == FileAnswer(id, send_ok).resp
            status == Get(download_progress, id).status
        IN /\ (r.code = 200 \/ r.file # NoFile) => status = "completed"
           /\ status # "completed" =>
                /\ r.code = 400
                /\ r.error = "Download not completed"
                /\ r.file = NoFile

\* a file request is answered with the file, and another one with 400 for an
\* entry that is being processed
C1_Witness ==
    /\ \E id \in DownloadIds : FileAnswer(id, TRUE).resp.code = 200
    /\ \E id \in DownloadIds : Get(download_progress, id).status = "processing"

\* C2: every background download that was started ends, and when it ends the
\* last status it wrote to its progress entry is 'completed' or 'error',
\* whichever upstream calls raised.
C2_EveryDownloadEnds ==
    /\ \A t \in Threads : Started(t) ~> (thread[t].pc = "done")
    /\ [][\A t \in Threads :
            (thread[t].pc # "done" /\ thread'[t].pc = "done")
                => thread[t].wrote \in Terminal]_vars

\* a download ended after its upstream calls failed, with status 'error'
C2_Witness ==
    \E t \in Threads :
        /\ thread[t].pc = "done"
        /\ thread[t].cause = "service"
        /\ Get(download_progress, thread[t].download_id).status = "error"

\* C3: one download makes at most two calls of ydl.download; the second is made
\* only after the first, made with the cookie file, raised, and it runs without
\* cookie file and with ignoreerrors and geo_bypass; after a failed second call
\* the thread only reports the error.
C3_AtMostOneRetry ==
    \A t \in Threads :
        LET a == thread[t].attempts IN
        /\ Len(a) <= 2
        /\ Len(a) = 2 =>
            /\ a[1].opts.cookiefile
            /\ a[1].result = "raised"
            /\ ~a[2].opts.cookiefile
            /\ a[2].opts.ignoreerrors
            /\ a[2].opts.geo_bypass
        /\ (Len(a) = 2 /\ a[2].result = "raised") =>
                thread[t].pc \in {"w_error", "w_errmsg"}

\* a retry has failed
C3_Witness ==
    \E t \in Threads :
        /\ Len(thread[t].attempts) = 2
        /\ thread[t].attempts[2].result = "raised"

\* C4: every accepted download request is given a download ID that no other
\* request has been given, so no two background downloads write the same entry
\* of download_progress.
C4_DownloadIdsUnique ==
    \A t, u \in Threads :
        (t # u /\ thread[t].pc # "idle" /\ thread[u].pc # "idle")
            => thread[t].download_id # thread[u].download_id

\* the lifecycle searching -> downloading -> processing -> completed | error
Rank(status) ==
    CASE status = "searching"   -> 1
      [] status = "downloading" -> 2
      [] status = "processing"  -> 3
      [] status \in Terminal    -> 4
      [] OTHER                  -> 0

\* C5: the status of an entry only moves forward through the lifecycle, and
\* once it is 'completed' or 'error' it does not change while the entry exists.
C5_StatusOnlyForward ==
    [][\A id \in DOMAIN download_progress \cap DOMAIN download_progress' :
            LET old == download_progress[id].status
                new == download_progress'[id].status
            IN /\ Rank(new) >= Rank(old)
               /\ old \in Terminal => new = old]_vars

\* C6: an entry whose status is 'completed' holds the filename of the media
\* file that was produced, and a download whose search found nothing playable
\* is not reported as completed.
C6_CompletedHasFile ==
    /\ \A id \in DOMAIN download_progress :
            download_progress[id].status = "completed"
                => download_progress[id].filename # NoFile
    /\ \A t \in Threads :
            thread[t].cause = "notfound" => thread[t].pc \notin {"w_completed", "w_100"}

NoCookieOpts == [cookiefile |-> FALSE, ignoreerrors |-> TRUE, geo_bypass |-> TRUE]

\* C7: without a usable cookie file (COOKIE_FILE is None or the file is gone
\* when the download starts) the request is accepted, the download goes on to
\* its attempt without writing an error, and every attempt it makes runs without
\* 'cookiefile' and with the fallback options.
C7_ProceedsUnauthenticated ==
    /\ [](~CookiesAvailable =>
            \A s \in SpotifyIds, i \in ServerIdents :
                LET r == download_full_track_result([json |-> TRUE, spotify_id |-> s], i, TRUE)
                IN r.resp.code = 200 /\ r.started # NoId)
    /\ [][\A t \in Threads :
            (thread[t].pc = "start" /\ thread'[t].pc # "start" /\ ~CookiesAvailable)
                => /\ thread'[t].pc = "ctor"
                   /\ thread'[t].ydl_opts = NoCookieOpts
                   /\ download_progress' = download_progress]_vars
    /\ [](\A t \in Threads :
            (Started(t) /\ ~thread[t].ydl_opts.cookiefile)
                => \A i \in DOMAIN thread[t].attempts :
                        thread[t].attempts[i].opts = NoCookieOpts)

\* the cookie file named by COOKIE_FILE is gone and a download is making its
\* attempt with the fallback options
C7_Witness ==
    \E t \in Threads :
        /\ COOKIE_FILE # Absent
        /\ ~cookie_exists
        /\ thread[t].pc = "download"
        /\ ~thread[t].retrying
        /\ CurOpts(thread[t]) = NoCookieOpts

\* what a client can observe of a download: the status and error of its entry
\* and the HTTP code of the file endpoint
Observable(id) ==
    [status |-> Get(download_progress, id).status,
     error  |-> Get(download_progress, id).error,
     code   |-> FileAnswer(id, TRUE).resp.code]

\* C8: a download that failed because nothing playable was found and one that
\* failed because the upstream service errored differ in what the client can
\* observe.
C8_FailureKindsDiffer ==
    \A t, u \in Threads :
        (/\ thread[t].pc = "done" /\ thread[u].pc = "done"
         /\ thread[t].download_id # thread[u].download_id
         /\ thread[t].download_id \in DOMAIN download_progress
         /\ thread[u].download_id \in DOMAIN download_progress
         /\ thread[t].cause = "notfound"
         /\ thread[u].cause = "service")
            => Observable(thread[t].download_id) # Observable(thread[u].download_id)

\* C9: a request without a track identifier (no JSON body, no 'spotify_id', an
\* empty 'spotify_id') is answered 400 and starts nothing, and 500 is answered
\* only after a valid identifier was supplied.
C9_MissingIdIs400 ==
    \A body \in Bodies, ident \in ServerIdents, track_found \in BOOLEAN :
        LET r == download_full_track_result(body, ident, track_found)
            missing == ~body.json \/ NoTrackId(body.spotify_id)
        IN /\ missing => (r.resp.code = 400 /\ r.started = NoId)
           /\ r.resp.code = 500 => ~missing

\* C10: download_file removes the progress entry exactly when it answers with
\* the file: a 400, 404 or 500 answer leaves download_progress unchanged, and
\* after an answer with the file the entry is gone.
C10_EntryRemovedIffServed ==
    \A id \in DownloadIds, send_ok \in BOOLEAN :
        LET r == FileAnswer(id, send_ok) IN
        /\ r.resp.code # 200 => r.dp = download_progress
        /\ r.resp.code = 200 => id \notin DOMAIN r.dp

\* the attempt made with the relaxed policy (no cookie file, ignoreerrors,
\* geo_bypass) has failed: its ydl.download raised, or the retry block failed
\* before reaching ydl.download
RelaxedAttemptFailed(th) ==
    \/ /\ th.attempts # <<>>
       /\ CurOpts(th) = NoCookieOpts
       /\ th.attempts[Len(th.attempts)].result = "raised"
    \/ th.retrying /\ th.cause # Absent

\* C11: status 'error' with a 'Download failed' message is written only after an
\* attempt made with the relaxed, cookie-less options has failed; a first attempt
\* with cookies that fails writes nothing and goes on to the retry; and when the
\* retry succeeds the entry ends with status 'completed' and no 'error' field.
C11_ErrorOnlyAfterRelaxedFailure ==
    /\ [][\A t \in Threads :
            (thread[t].pc # "w_error" /\ thread'[t].pc = "w_error")
                => RelaxedAttemptFailed(thread'[t])]_vars
    /\ [][\A t \in Threads :
            (/\ thread[t].pc = "download" /\ ~thread[t].retrying
             /\ CurOpts(thread[t]).cookiefile
             /\ thread'[t].pc \notin {"download", "w_completed"})
                => /\ thread'[t].pc = "retry_ctor"
                   /\ download_progress' = download_progress]_vars
    /\ [][\A t \in Threads :
            (thread[t].pc = "w_100" /\ thread[t].retrying /\ thread'[t].pc = "done")
                => LET entry == Get(download_progress', thread[t].download_id)
                   IN entry.status = "completed" /\ entry.error = NoError]_vars

\* the snapshot GET /api/download/progress/<download_id> returns right now
Snapshot(id) == get_download_progress_result(download_progress, id).resp.entry

\* C12: while a download thread is running, every snapshot the progress endpoint
\* returns for its download ID is consistent: status 'completed' comes with
\* progress 100.
C12_CompletedSnapshotIs100 ==
    \A t \in Threads :
        (Started(t) /\ Snapshot(thread[t].download_id).status = "completed")
            => Snapshot(thread[t].download_id).progress = 100

\* the file endpoint has not removed an entry of this download ID: it removes one
\* only when the mp3 of that ID is on disk, and mp3 files are never removed
NotRetrieved(id) == [id |-> id, ext |-> "mp3"] \notin files

\* C13: once POST /api/download/full/track has answered with a download ID, every
\* progress query for that ID made before the file is retrieved returns an entry
\* with a status, so a started download never looks like an unknown ID.
C13_StartedHasStatus ==
    \A t \in Threads :
        (thread[t].pc # "idle" /\ NotRetrieved(thread[t].download_id))
            => /\ Snapshot(thread[t].download_id).status # Absent
               /\ Snapshot(thread[t].download_id) # EmptyDict

\* C14: GET /api/download/progress/<download_id> is read-only: for every download
\* ID it leaves download_progress as it was, and for an ID without entry it
\* answers with the empty object and creates no entry.
C14_ProgressReadOnly ==
    /\ [](\A id \in DownloadIds :
            LET r == get_download_progress_result(download_progress, id) IN
            /\ r.dp = download_progress
            /\ r.resp.code = 200
            /\ r.resp.entry = Get(download_progress, id)
            /\ id \notin DOMAIN download_progress
                => (r.resp.entry = EmptyDict /\ id \notin DOMAIN r.dp))
    /\ [][\A id \in DownloadIds :
            get_download_progress(id) => download_progress' = download_progress]_vars

\* the progress endpoint can be asked for an ID that has an entry written by a
\* running download and for an ID that has none
C14_Witness ==
    /\ \E t \in Threads :
            /\ Started(t)
            /\ thread[t].download_id \in DOMAIN download_progress
            /\ Snapshot(thread[t].download_id).status = "downloading"
    /\ \E id \in DownloadIds :
            id \notin DOMAIN download_progress /\ Snapshot(id) = EmptyDict

\* the smallest index of a common path that exists, or 0
FirstExisting(fs) ==
    IF \E i \in DOMAIN common_paths : common_paths[i] \in DOMAIN fs
    THEN CHOOSE i \in DOMAIN common_paths :
            /\ common_paths[i] \in DOMAIN fs
            /\ \A j \in 1..(i - 1) : common_paths[j] \notin DOMAIN fs
    ELSE 0

\* C15: setup_cookies takes the cookie source by priority: the path in the
\* environment variable COOKIE_FILE when it exists; else the base64 value of
\* the environment, decoded into a new temporary file; else the first common
\* path that exists, in the listed order; else None. A base64 value that fails
\* to decode leads on to the common paths, and no file that existed before is
\* changed.
C15_CookieSourcePriority ==
    [][(~startup.loaded /\ startup'.loaded) =>
        LET env_path == startup.COOKIE_FILE
            b64      == startup.YOUTUBE_COOKIES_BASE64
            before   == startup.fs
            after    == startup'.fs
            env_found == env_path \notin {Absent, ""} /\ env_path \in DOMAIN before
            decoded  == b64decode_utf8(b64)
            b64_used == /\ b64 \notin {Absent, ""}
                        /\ ~decoded.raised
                        /\ startup.tmp = "ok"
            first    == FirstExisting(before)
        IN /\ env_found => COOKIE_FILE' = env_path
           /\ (~env_found /\ b64_used) =>
                /\ COOKIE_FILE' \notin DOMAIN before
                /\ COOKIE_FILE' \in DOMAIN after
                /\ after[COOKIE_FILE'] = decoded.text
           /\ (~env_found /\ ~b64_used /\ first # 0) => COOKIE_FILE' = common_paths[first]
           /\ (~env_found /\ ~b64_used /\ first = 0) => COOKIE_FILE' = Absent
           /\ (~env_found /\ decoded.raised) =>
                COOKIE_FILE' = (IF first = 0 THEN Absent ELSE common_paths[first])
           /\ \A p \in DOMAIN before : p \in DOMAIN after /\ after[p] = before[p]]_vars

\* the path named by COOKIE_FILE does not exist, the base64 value failed to
\* decode, and the second common path was taken because the first is missing
C15_Witness ==
    /\ startup.loaded
    /\ startup.COOKIE_FILE = "/data/cookies.txt"
    /\ "/data/cookies.txt" \notin DOMAIN startup.fs
    /\ startup.YOUTUBE_COOKIES_BASE64 = "abc"
    /\ common_paths[1] \notin DOMAIN startup.fs
    /\ COOKIE_FILE = common_paths[2]

====
